---------------------------- MODULE Spec2Model ----------------------------
(***************************************************************************)
(* CORScanner (src/main.go): a pool of worker goroutines takes URLs from   *)
(* a channel, runs checkCORS on each non-blank one (up to three GET        *)
(* requests with different Origin headers) and sends every vulnerable      *)
(* CORSResult on a results channel, which main reads and sorts into four   *)
(* buckets.                                                                *)
(*                                                                         *)
(* Go strings are modelled as sequences of one-character strings, so that  *)
(* strings.HasSuffix, strings.Split, url.Parse and publicsuffix work on    *)
(* the characters, as they do in the program.  The vulnerability messages  *)
(* are sequences of words and punctuation marks, on which                  *)
(* strings.Contains is the search for a contiguous run of words.           *)
(***************************************************************************)
EXTENDS Integers, Sequences, FiniteSets, TLC

(***************************************************************************)
(* Bounds of the model.                                                    *)
(***************************************************************************)
MaxUrls == 2
MaxWorkers == 2

(***************************************************************************)
(* The strings package.                                                    *)
(***************************************************************************)
HasSuffix(s, suffix) ==
    /\ Len(suffix) <= Len(s)
    /\ SubSeq(s, Len(s) - Len(suffix) + 1, Len(s)) = suffix

HasPrefix(s, prefix) ==
    /\ Len(prefix) <= Len(s)
    /\ SubSeq(s, 1, Len(prefix)) = prefix

Contains(s, substr) ==
    \E i \in 0..(Len(s) - Len(substr)) : SubSeq(s, i + 1, i + Len(substr)) = substr

\* 1-based position of the first / last occurrence of character c, 0 if none
\* (Go returns the 0-based position, -1 if none).
Index(s, c) ==
    IF \E i \in 1..Len(s) : s[i] = c
    THEN CHOOSE i \in 1..Len(s) : s[i] = c /\ \A j \in 1..(i - 1) : s[j] # c
    ELSE 0

LastIndex(s, c) ==
    IF \E i \in 1..Len(s) : s[i] = c
    THEN CHOOSE i \in 1..Len(s) : s[i] = c /\ \A j \in (i + 1)..Len(s) : s[j] # c
    ELSE 0

RECURSIVE Split(_, _)
Split(s, c) ==
    IF Index(s, c) = 0
    THEN <<s>>
    ELSE <<SubSeq(s, 1, Index(s, c) - 1)>> \o Split(SubSeq(s, Index(s, c) + 1, Len(s)), c)

Digits == {"0", "1", "2", "3", "4", "5", "6", "7", "8", "9"}
Letters == {"a", "b", "c", "d", "e", "f", "g", "h", "i", "j", "k", "l", "m",
            "n", "o", "p", "q", "r", "s", "t", "u", "v", "w", "x", "y", "z"}

DigitVal(d) ==
    CASE d = "0" -> 0 [] d = "1" -> 1 [] d = "2" -> 2 [] d = "3" -> 3 [] d = "4" -> 4
      [] d = "5" -> 5 [] d = "6" -> 6 [] d = "7" -> 7 [] d = "8" -> 8 [] d = "9" -> 9

RECURSIVE DecVal(_)
DecVal(s) ==
    IF s = <<>> THEN 0 ELSE 10 * DecVal(SubSeq(s, 1, Len(s) - 1)) + DigitVal(s[Len(s)])

\* strconv.Atoi with its error dropped: the value of an optionally signed run
\* of digits, 0 for anything else (the empty string included).
Atoi(s) ==
    LET body == IF s # <<>> /\ s[1] \in {"+", "-"} THEN Tail(s) ELSE s
    IN  IF body = <<>> \/ \E i \in 1..Len(body) : body[i] \notin Digits
        THEN 0
        ELSE IF s[1] = "-" THEN 0 - DecVal(body) ELSE DecVal(body)

\* parseHeader: the empty header is the empty list, any other is split on ",".
parseHeader(header) ==
    IF header = <<>> THEN <<>> ELSE Split(header, ",")


(***************************************************************************)
(* net/url: url.Parse, for the URLs of the model, which are written with   *)
(* letters, digits and the characters : / . only (no query, fragment,      *)
(* user-info, escape or IPv6 literal).  Only Scheme and Host are used by   *)
(* the program.                                                            *)
(***************************************************************************)
\* getScheme: the position of the first character that cannot continue a
\* scheme (0 if the whole string could).
SchemeStop(rawURL) ==
    LET stops == {i \in 1..Len(rawURL) :
                     /\ rawURL[i] \notin Letters
                     /\ ~(i > 1 /\ rawURL[i] \in Digits \cup {"+", "-", "."})}
    IN  IF stops = {} THEN 0 ELSE CHOOSE i \in stops : \A j \in stops : i <= j

\* validOptionalPort applied to the part of the host from its last colon.
ValidPort(host) ==
    \/ LastIndex(host, ":") = 0
    \/ \A i \in (LastIndex(host, ":") + 1)..Len(host) : host[i] \in Digits

Parse(rawURL) ==
    LET stop    == SchemeStop(rawURL)
        colon   == stop > 0 /\ rawURL[stop] = ":"
        scheme  == IF colon THEN SubSeq(rawURL, 1, stop - 1) ELSE <<>>
        rest    == IF colon THEN SubSeq(rawURL, stop + 1, Len(rawURL)) ELSE rawURL
        segment == IF Index(rest, "/") = 0 THEN rest
                   ELSE SubSeq(rest, 1, Index(rest, "/") - 1)
        auth    == SubSeq(rest, 3, Len(rest))
        host    == IF Index(auth, "/") = 0 THEN auth
                   ELSE SubSeq(auth, 1, Index(auth, "/") - 1)
    IN  IF colon /\ stop = 1
        THEN [err |-> TRUE, Scheme |-> <<>>, Host |-> <<>>]   \* missing protocol scheme
        ELSE IF ~HasPrefix(rest, <<"/">>) /\ scheme # <<>>
        THEN [err |-> FALSE, Scheme |-> scheme, Host |-> <<>>]   \* opaque
        ELSE IF ~HasPrefix(rest, <<"/">>) /\ Index(segment, ":") # 0
        THEN [err |-> TRUE, Scheme |-> <<>>, Host |-> <<>>]   \* colon in first segment
        ELSE IF /\ scheme # <<>> \/ ~HasPrefix(rest, <<"/", "/", "/">>)
                /\ HasPrefix(rest, <<"/", "/">>)
        THEN IF ValidPort(host)
             THEN [err |-> FALSE, Scheme |-> scheme, Host |-> host]
             ELSE [err |-> TRUE, Scheme |-> <<>>, Host |-> <<>>]   \* invalid port
        ELSE [err |-> FALSE, Scheme |-> scheme, Host |-> <<>>]

\* http.NewRequest("GET", url, nil) fails exactly when url.Parse(url) does.
NewRequestFails(url) == Parse(url).err

HTTP == <<"h", "t", "t", "p">>
HTTPS == <<"h", "t", "t", "p", "s">>

\* client.Do refuses, before any network traffic, a request whose URL has a
\* scheme other than http or https, or no host.
TransportRefuses(url) ==
    \/ Parse(url).Scheme \notin {HTTP, HTTPS}
    \/ Parse(url).Host = <<>>

\* u.Scheme + "://" + u.Host
SchemeHost(url) == Parse(url).Scheme \o <<":", "/", "/">> \o Parse(url).Host

(***************************************************************************)
(* golang.org/x/net/publicsuffix: PublicSuffix(domain) is the longest run  *)
(* of trailing dot-separated labels that is a rule of the list, and the    *)
(* last label when no rule matches (the default rule "*").  The list of    *)
(* the model holds the rules com, uk and co.uk.                            *)
(***************************************************************************)
SuffixRules ==
    { <<"c", "o", "m">>, <<"u", "k">>, <<"c", "o", ".", "u", "k">> }

\* The part of domain after its k-th dot from the right (domain itself when
\* it has fewer than k dots).
TrailingLabels(domain, k) ==
    LET dots == {i \in 1..Len(domain) : domain[i] = "."}
        from == {i \in dots : Cardinality({j \in dots : j >= i}) = k}
    IN  IF from = {} THEN domain
        ELSE SubSeq(domain, (CHOOSE i \in from : TRUE) + 1, Len(domain))

PublicSuffix(domain) ==
    LET n       == Len(Split(domain, "."))
        matched == {k \in 1..n : \A j \in 1..k : TrailingLabels(domain, j) \in SuffixRules}
    IN  IF matched = {}
        THEN TrailingLabels(domain, 1)
        ELSE TrailingLabels(domain, Cardinality(matched))

(***************************************************************************)
(* The lines of the URL file and the servers behind them.  Each target is  *)
(* served by one kind of server, which decides the response to a request   *)
(* from its Origin header alone.                                           *)
(***************************************************************************)
Blank == <<>>
SlashSlash == <<":", "/", "/">>
OriginNull == <<"n", "u", "l", "l">>
OriginExample == HTTP \o SlashSlash \o <<"e", "x", "a", "m", "p", "l", "e", ".", "c", "o", "m">>
Star == <<"*">>

UrlWild == HTTP \o SlashSlash \o <<"w", ".", "c", "o", "m">>
UrlEcho == HTTP \o SlashSlash \o <<"r", ".", "c", "o", "m", "/", "p">>
UrlThird == HTTP \o SlashSlash \o <<"t", ".", "c", "o", "m">>
UrlNone == HTTP \o SlashSlash \o <<"n", ".", "c", "o", ".", "u", "k", ":", "8", "0", "/", "p">>
UrlSelf == HTTPS \o SlashSlash \o <<"s", ".", "c", "o", "m">>
UrlStatic == HTTP \o SlashSlash \o <<"a", ".", "c", "o", "m">>
UrlFlaky == HTTP \o SlashSlash \o <<"f", ".", "c", "o", "m">>
UrlBad == SlashSlash \o <<"b">>
UrlNoScheme == <<"x", ".", "c", "o", "m">>
UrlDot == HTTP \o SlashSlash \o <<"d", ".", "c", "o", "m", ".">>
UrlPath == HTTP \o SlashSlash \o <<"c", ".", "c", "o", "m", "/", "p">>

Targets ==
    {UrlWild, UrlEcho, UrlThird, UrlNone, UrlSelf, UrlStatic, UrlFlaky, UrlBad, UrlNoScheme,
     UrlDot, UrlPath}

ServerKind(url) ==
    CASE url = UrlWild -> "wildcard"      \* Access-Control-Allow-Origin: * to everyone
      [] url = UrlEcho -> "reflect"       \* echoes the Origin it is sent
      [] url = UrlThird -> "third"        \* allows http://example.com and nothing else;
                                          \* its refusal still carries some CORS headers
      [] url = UrlSelf -> "self"          \* allows its own scheme://host and nothing else
      [] url \in {UrlStatic, UrlPath} -> "static"   \* always names one fixed partner origin
      [] url = UrlFlaky -> "flaky"        \* no CORS headers; the connection may fail
      [] OTHER -> "none"                  \* no CORS headers

NoHeaders ==
    [ACAO |-> <<>>, ACAM |-> <<>>, ACAH |-> <<>>, ACEH |-> <<>>, MaxAge |-> <<>>, ACAC |-> <<>>]

Allowing(origin) ==
    [ACAO |-> origin, ACAM |-> <<"G", "E", "T", ",", " ", "P", "U", "T">>,
     ACAH |-> <<"x">>, ACEH |-> <<>>, MaxAge |-> <<"6", "0">>,
     ACAC |-> <<"t", "r", "u", "e">>]

\* The headers of a refusal that names no origin.
Refusing ==
    [NoHeaders EXCEPT !.ACEH = <<"y">>, !.MaxAge = <<"5">>]

PartnerOrigin == HTTP \o SlashSlash \o <<"b", ".", "c", "o", "m">>

\* The response of the server of url to a GET with the given Origin header.
Response(url, origin) ==
    LET kind == ServerKind(url)
    IN  CASE kind = "wildcard" ->
               IF origin = OriginNull
               THEN [StatusCode |-> 200, Header |-> [NoHeaders EXCEPT !.ACAO = Star]]
               ELSE [StatusCode |-> 204, Header |-> Allowing(Star)]
          [] kind = "reflect" ->
               [StatusCode |-> 200, Header |-> Allowing(origin)]
          [] kind = "third" ->
               IF origin = OriginExample
               THEN [StatusCode |-> 200, Header |-> Allowing(origin)]
               ELSE [StatusCode |-> 403, Header |-> Refusing]
          [] kind = "self" ->
               IF origin = SchemeHost(url)
               THEN [StatusCode |-> 200, Header |-> Allowing(origin)]
               ELSE [StatusCode |-> 403, Header |-> NoHeaders]
          [] kind = "static" ->
               [StatusCode |-> 200,
                Header |-> [NoHeaders EXCEPT !.ACAO = PartnerOrigin, !.MaxAge = <<"1", "h">>]]
          [] OTHER ->
               [StatusCode |-> 404, Header |-> NoHeaders]

\* Whether client.Do may return an error for this request.
MayFail(url) == TransportRefuses(url) \/ ServerKind(url) = "flaky"

\* Whether client.Do may return a response for this request.
MayAnswer(url) == ~TransportRefuses(url)

(***************************************************************************)
(* checkCORS, between two requests.                                        *)
(***************************************************************************)
\* The CORSConfig read from a response.
ReadConfig(resp) ==
    [AllowOrigins |-> <<resp.Header.ACAO>>,
     AllowMethods |-> parseHeader(resp.Header.ACAM),
     AllowHeaders |-> parseHeader(resp.Header.ACAH),
     ExposeHeaders |-> parseHeader(resp.Header.ACEH),
     MaxAge |-> Atoi(resp.Header.MaxAge),
     AllowCredentials |-> resp.Header.ACAC]

MsgTail ==
    <<",", "which", "can", "allow", "malicious", "scripts", "to", "make", "requests",
      "on", "behalf", "of", "the", "user", ".">>
MsgWildcard == <<"Wildcard", "origin", "(*)", "is", "set">> \o MsgTail
MsgNull == <<"Null", "origin", "is", "allowed">> \o MsgTail
MsgSame ==
    <<"Origin", "allows", "the", "same", "domain", "as", "the", "target", "URL">> \o MsgTail
MsgDifferent == <<"Origin", "allows", "a", "different", "domain">> \o MsgTail
NoMsg == <<>>

\* A slip: the test for "null" is left out.
Verdict1_NoNullTest(url, allowOrigin) ==
    IF allowOrigin = Star THEN MsgWildcard
    ELSE IF PublicSuffix(url) # <<>> /\ HasSuffix(allowOrigin, PublicSuffix(url)) THEN MsgSame
    ELSE NoMsg

\* A slip: the "null" answer is given the message of the same domain.
Verdict1_NullAsSame(url, allowOrigin) ==
    IF allowOrigin = Star THEN MsgWildcard
    ELSE IF allowOrigin = OriginNull THEN MsgSame
    ELSE IF PublicSuffix(url) # <<>> /\ HasSuffix(allowOrigin, PublicSuffix(url)) THEN MsgSame
    ELSE NoMsg

\* A slip: the suffix is not tested for being empty.
Verdict1_NoEmptyTest(url, allowOrigin) ==
    IF allowOrigin = Star THEN MsgWildcard
    ELSE IF allowOrigin = OriginNull THEN MsgNull
    ELSE IF HasSuffix(allowOrigin, PublicSuffix(url)) THEN MsgSame
    ELSE NoMsg

\* The verdict of the first probe on the allow-origin value it got.
Verdict1(url, allowOrigin) ==
    IF allowOrigin = Star THEN MsgWildcard
    ELSE IF allowOrigin = OriginNull THEN MsgNull
    ELSE IF PublicSuffix(url) # <<>> /\ HasSuffix(allowOrigin, PublicSuffix(url)) THEN MsgSame
    ELSE NoMsg

\* A slip: the allow-origin value is compared with the host, without the scheme.
Verdict2_HostOnly(url, allowOrigin) ==
    IF allowOrigin = SubSeq(OriginExample, 8, Len(OriginExample)) THEN MsgDifferent ELSE NoMsg

Verdict2(url, allowOrigin) ==
    IF allowOrigin = OriginExample THEN MsgDifferent ELSE NoMsg

\* A slip: the third probe's match is given the different-domain message.
Verdict3_DifferentLabel(url, allowOrigin) ==
    IF allowOrigin = SchemeHost(url) THEN MsgDifferent ELSE NoMsg

\* The verdict of the third probe.
Verdict3(url, allowOrigin) ==
    IF allowOrigin = SchemeHost(url) THEN MsgSame ELSE NoMsg

\* A slip: the first two requests are made in the other order.
ProbeOrigin_Swapped(url, k) ==
    CASE k = 1 -> OriginExample
      [] k = 2 -> OriginNull
      [] OTHER -> SchemeHost(url)

\* The Origin header of the k-th request for url.
ProbeOrigin(url, k) ==
    CASE k = 1 -> OriginNull
      [] k = 2 -> OriginExample
      [] OTHER -> SchemeHost(url)

ProbeVerdict(url, k, allowOrigin) ==
    CASE k = 1 -> Verdict1(url, allowOrigin)
      [] k = 2 -> Verdict2(url, allowOrigin)
      [] OTHER -> Verdict3(url, allowOrigin)

(***************************************************************************)
(* The state of a run of main, from the creation of the channels on.       *)
(***************************************************************************)
VARIABLES
    concurrency,    \* the -c flag
    urlList,        \* the lines of the file
    urlChan,        \* the buffered channel of URLs; each carries its line number
    urlClosed,      \* close(urlChan) was called
    distributed,    \* the number of lines the distributor has sent
    wg,             \* the WaitGroup's counter
    waiter,         \* the goroutine of wg.Wait: "wait", "close" or "done"
    results,        \* the buffered channel of results
    resultsClosed,  \* close(results) was called
    pc,             \* where each worker is: "recv", "probe1", "probe2", "probe3",
                    \* "result", "done" or "panic"
    loc,            \* the locals of each worker's call of checkCORS
    collector,      \* main's loop over results: "range" or "done"
    output,         \* the results main has read, in the order read
    buckets,        \* the four categorized slices
    taken,          \* history: how often each line was received by a worker
    calls,          \* history: how often checkCORS was called for each line
    reqs,           \* history: the Origin headers of the requests made for each line
    found,          \* history: how often a probe of each line reached a vulnerable verdict
    failed          \* history: the probe (1, 2, 3) at which checkCORS returned on an
                    \* error for each line, 0 if it did not

vars ==
    <<concurrency, urlList, urlChan, urlClosed, distributed, wg, waiter, results,
      resultsClosed, pc, loc, collector, output, buckets, taken, calls, reqs, found,
      failed>>

\* A slip: the loop that starts the workers runs once too often.
Workers_OffByOne == 0..concurrency

Workers == 1..concurrency
Lines == 1..Len(urlList)

Entries == Targets \cup {Blank}

\* The lines the pool is explored with: one target for each way checkCORS can
\* end (a verdict at the first, second or third probe, no verdict, an error
\* of the transport at any probe, an error of http.NewRequest), and the blank.
PoolEntries == {UrlWild, UrlThird, UrlSelf, UrlFlaky, UrlBad, Blank}

\* strings.Split(strings.TrimSpace(file), "\n"): at least one line, and a blank
\* line only between two others, or alone when the file is empty.
UrlLists(entries, maxLen) ==
    {l \in UNION {[1..n -> entries] : n \in 1..maxLen} :
        \/ l = <<Blank>>
        \/ l[1] # Blank /\ l[Len(l)] # Blank}

\* The values of the -c flag: any integer, here from -1 to MaxWorkers.
Concurrencies == {0 - 1, 0} \cup 1..MaxWorkers

Idle == [line |-> 0, url |-> Blank]

EmptyBuckets ==
    [nullOrigin |-> <<>>, wildcardOrigin |-> <<>>, domainOrigin |-> <<>>,
     differentDomain |-> <<>>]

\* The workers are started, each after a wg.Add(1), before the distributor and
\* the goroutine of wg.Wait are; nothing has run yet.
Started(flags, lists) ==
    /\ concurrency \in flags
    /\ urlList \in lists
    /\ urlChan = <<>>
    /\ urlClosed = FALSE
    /\ distributed = 0
    /\ wg = IF concurrency > 0 THEN concurrency ELSE 0
    /\ waiter = "wait"
    /\ results = <<>>
    /\ resultsClosed = FALSE
    /\ pc = [w \in Workers |-> "recv"]
    /\ loc = [w \in Workers |-> Idle]
    /\ collector = "range"
    /\ output = <<>>
    /\ buckets = EmptyBuckets
    /\ taken = [i \in Lines |-> 0]
    /\ calls = [i \in Lines |-> 0]
    /\ reqs = [i \in Lines |-> <<>>]
    /\ found = [i \in Lines |-> 0]
    /\ failed = [i \in Lines |-> 0]

Init == Started(Concurrencies, UrlLists(PoolEntries, MaxUrls))

\* urlChan := make(chan string, len(urlList))
UrlChanCap == Len(urlList)

\* A slip: the results channel is sized one short of the number of lines.
ResultsCap_OneShort == Len(urlList) - 1

\* results := make(chan CORSResult, len(urlList))
ResultsCap == Len(urlList)

(***************************************************************************)
(* The distributor goroutine.                                              *)
(***************************************************************************)
Distribute ==
    /\ distributed < Len(urlList)
    /\ ~urlClosed
    /\ Len(urlChan) < UrlChanCap
    /\ urlChan' = Append(urlChan, [line |-> distributed + 1, url |-> urlList[distributed + 1]])
    /\ distributed' = distributed + 1
    /\ UNCHANGED <<concurrency, urlList, urlClosed, wg, waiter, results, resultsClosed, pc,
                   loc, collector, output, buckets, taken, calls, reqs, found, failed>>

\* A slip: the distributor stops one line short.
CloseUrlChan_Early ==
    /\ distributed >= Len(urlList) - 1
    /\ ~urlClosed
    /\ urlClosed' = TRUE
    /\ UNCHANGED <<concurrency, urlList, urlChan, distributed, wg, waiter, results,
                   resultsClosed, pc, loc, collector, output, buckets, taken, calls, reqs,
                   found, failed>>

CloseUrlChan ==
    /\ distributed = Len(urlList)
    /\ ~urlClosed
    /\ urlClosed' = TRUE
    /\ UNCHANGED <<concurrency, urlList, urlChan, distributed, wg, waiter, results,
                   resultsClosed, pc, loc, collector, output, buckets, taken, calls, reqs,
                   found, failed>>

(***************************************************************************)
(* A worker goroutine: for url := range urlChan.                           *)
(***************************************************************************)
\* The worker receives a line that is not blank and calls checkCORS.
TakeUrl(w) ==
    /\ pc[w] = "recv"
    /\ urlChan # <<>>
    /\ Head(urlChan).url # Blank
    /\ urlChan' = Tail(urlChan)
    /\ loc' = [loc EXCEPT ![w] = Head(urlChan)]
    /\ pc' = [pc EXCEPT ![w] = "probe1"]
    /\ taken' = [taken EXCEPT ![Head(urlChan).line] = @ + 1]
    /\ calls' = [calls EXCEPT ![Head(urlChan).line] = @ + 1]
    /\ UNCHANGED <<concurrency, urlList, urlClosed, distributed, wg, waiter, results,
                   resultsClosed, collector, output, buckets, reqs, found, failed>>

\* A slip: a blank line ends the worker's loop.
SkipBlank_Breaks(w) ==
    /\ pc[w] = "recv"
    /\ urlChan # <<>>
    /\ Head(urlChan).url = Blank
    /\ urlChan' = Tail(urlChan)
    /\ taken' = [taken EXCEPT ![Head(urlChan).line] = @ + 1]
    /\ pc' = [pc EXCEPT ![w] = "done"]
    /\ wg' = wg - 1
    /\ UNCHANGED <<concurrency, urlList, urlClosed, distributed, waiter, results,
                   resultsClosed, loc, collector, output, buckets, calls, reqs, found,
                   failed>>

\* The worker receives a blank line and goes on to the next.
SkipBlank(w) ==
    /\ pc[w] = "recv"
    /\ urlChan # <<>>
    /\ Head(urlChan).url = Blank
    /\ urlChan' = Tail(urlChan)
    /\ taken' = [taken EXCEPT ![Head(urlChan).line] = @ + 1]
    /\ UNCHANGED <<concurrency, urlList, urlClosed, distributed, wg, waiter, results,
                   resultsClosed, pc, loc, collector, output, buckets, calls, reqs, found,
                   failed>>

\* A slip: the worker's wg.Done is missing.
WorkerExit_NoDone(w) ==
    /\ pc[w] = "recv"
    /\ urlChan = <<>>
    /\ urlClosed
    /\ pc' = [pc EXCEPT ![w] = "done"]
    /\ UNCHANGED <<concurrency, urlList, urlChan, urlClosed, distributed, wg, waiter,
                   results, resultsClosed, loc, collector, output, buckets, taken, calls,
                   reqs, found, failed>>

\* The channel is closed and empty: the loop ends and the deferred wg.Done runs.
WorkerExit(w) ==
    /\ pc[w] = "recv"
    /\ urlChan = <<>>
    /\ urlClosed
    /\ pc' = [pc EXCEPT ![w] = "done"]
    /\ wg' = wg - 1
    /\ UNCHANGED <<concurrency, urlList, urlChan, urlClosed, distributed, waiter, results,
                   resultsClosed, loc, collector, output, buckets, taken, calls, reqs, found,
                   failed>>

(***************************************************************************)
(* checkCORS.  One step is one request: http.NewRequest, client.Do, the    *)
(* reading of the response headers and the test of the allow-origin value. *)
(***************************************************************************)
\* The outcomes of client.Do: TRUE a response, FALSE an error.
Outcomes(url) ==
    {ok \in BOOLEAN : IF ok THEN MayAnswer(url) ELSE MayFail(url)}

PcOfProbe(k) ==
    CASE k = 1 -> "probe1" [] k = 2 -> "probe2" [] OTHER -> "probe3"

\* checkCORS returns and the worker is back at its loop.
Return(w) ==
    /\ pc' = [pc EXCEPT ![w] = "recv"]
    /\ loc' = [loc EXCEPT ![w] = Idle]

\* A slip: an error ends the worker's goroutine instead of the call.
ReturnOnError_Exits(w, k) ==
    /\ pc' = [pc EXCEPT ![w] = "done"]
    /\ loc' = [loc EXCEPT ![w] = Idle]
    /\ failed' = [failed EXCEPT ![loc[w].line] = k]

\* The return on an error at the k-th probe.
ReturnOnError(w, k) ==
    /\ Return(w)
    /\ failed' = [failed EXCEPT ![loc[w].line] = k]

\* A slip: the later probes are not guarded by "if !vulnerable".
AfterProbe_NoShortCircuit(k, vulnerable) ==
    IF k < 3 THEN PcOfProbe(k + 1) ELSE "result"

\* Where checkCORS goes after the k-th response: each later probe is guarded
\* by "if !vulnerable", and the result is built after the last.
AfterProbe(k, vulnerable) ==
    IF ~vulnerable /\ k < 3 THEN PcOfProbe(k + 1) ELSE "result"

\* A slip: the exposed headers and the max-age are not read again after the
\* first response.
ProbeOf_StaleFields(url, k) ==
    LET resp  == Response(url, ProbeOrigin(url, k))
        first == ReadConfig(Response(url, OriginNull))
        cfg   == [ReadConfig(resp) EXCEPT !.ExposeHeaders = first.ExposeHeaders,
                                          !.MaxAge = first.MaxAge]
        msg   == ProbeVerdict(url, k, cfg.AllowOrigins[1])
    IN  [unsent |-> (k = 3 /\ Parse(url).err) \/ NewRequestFails(url),
         origin |-> ProbeOrigin(url, k),
         outcomes |-> Outcomes(url),
         StatusCode |-> resp.StatusCode,
         corsConfig |-> cfg,
         vulnerability |-> msg]

\* What the k-th request for url comes to: whether url.Parse or
\* http.NewRequest returns an error before it is sent, the Origin header it
\* carries, the outcomes client.Do may have, and, from the response, the
\* status code, the configuration read and the verdict on it.
ProbeOf(url, k) ==
    LET resp == Response(url, ProbeOrigin(url, k))
        cfg  == ReadConfig(resp)
        msg  == ProbeVerdict(url, k, cfg.AllowOrigins[1])
    IN  [unsent |-> (k = 3 /\ Parse(url).err) \/ NewRequestFails(url),
         origin |-> ProbeOrigin(url, k),
         outcomes |-> Outcomes(url),
         StatusCode |-> resp.StatusCode,
         corsConfig |-> cfg,
         vulnerability |-> msg]

\* ProbeOf for every target and request, computed once.
Probes == [url \in Targets |-> [k \in 1..3 |-> ProbeOf(url, k)]]

\* The k-th request of worker w's call of checkCORS and what follows it up
\* to the next request, the building of the result or the return.
ProbeStep(w, k) ==
    /\ pc[w] = PcOfProbe(k)
    /\ \E line \in {loc[w].line}, url \in {loc[w].url} : \E p \in {Probes[url][k]} :
          IF p.unsent
          THEN /\ ReturnOnError(w, k)
               /\ UNCHANGED <<reqs, found>>
          ELSE /\ reqs' = [reqs EXCEPT ![line] = Append(@, p.origin)]
               /\ \E ok \in p.outcomes :
                     IF ~ok
                     THEN /\ ReturnOnError(w, k)
                          /\ UNCHANGED found
                     ELSE /\ pc' = [pc EXCEPT ![w] =
                                       AfterProbe(k, p.vulnerability # NoMsg)]
                          /\ loc' = [loc EXCEPT ![w] =
                                        [line |-> line, url |-> url,
                                         StatusCode |-> p.StatusCode,
                                         corsConfig |-> p.corsConfig,
                                         vulnerable |-> p.vulnerability # NoMsg,
                                         vulnerability |-> p.vulnerability]]
                          /\ found' = [found EXCEPT ![line] =
                                          IF p.vulnerability # NoMsg THEN @ + 1 ELSE @]
                          /\ UNCHANGED failed
    /\ UNCHANGED <<concurrency, urlList, urlChan, urlClosed, distributed, wg, waiter,
                   results, resultsClosed, collector, output, buckets, taken, calls>>

Probe1(w) == ProbeStep(w, 1)
Probe2(w) == ProbeStep(w, 2)
Probe3(w) == ProbeStep(w, 3)

\* The CORSResult built from the locals.
Result(l) ==
    [URL |-> l.url, StatusCode |-> l.StatusCode, CORSConfig |-> l.corsConfig,
     Vulnerable |-> l.vulnerable, Vulnerability |-> l.vulnerability]

\* A slip: the result is sent whatever its verdict.
ShouldSend_Always(result) == TRUE

\* if vulnerable { results <- result }
ShouldSend(result) == result.Vulnerable

\* A slip: a vulnerable result is sent twice.
Finish_SendsTwice(w) ==
    /\ pc[w] = "result"
    /\ IF ~loc[w].vulnerable
       THEN /\ pc' = [pc EXCEPT ![w] = "recv"]
            /\ loc' = [loc EXCEPT ![w] = Idle]
            /\ UNCHANGED results
       ELSE /\ ~resultsClosed
            /\ results' = results \o <<[line |-> loc[w].line, result |-> Result(loc[w])],
                                       [line |-> loc[w].line, result |-> Result(loc[w])]>>
            /\ pc' = [pc EXCEPT ![w] = "recv"]
            /\ loc' = [loc EXCEPT ![w] = Idle]
    /\ UNCHANGED <<concurrency, urlList, urlChan, urlClosed, distributed, wg, waiter,
                   resultsClosed, collector, output, buckets, taken, calls, reqs, found,
                   failed>>

\* The end of checkCORS: the result is built and, if vulnerable, sent.  A send
\* on a closed channel panics; a send on a full one waits.
Finish(w) ==
    /\ pc[w] = "result"
    /\ IF ~ShouldSend(Result(loc[w]))
       THEN /\ Return(w)
            /\ UNCHANGED results
       ELSE IF resultsClosed
       THEN /\ pc' = [pc EXCEPT ![w] = "panic"]
            /\ UNCHANGED <<results, loc>>
       ELSE /\ Len(results) < ResultsCap
            /\ results' = Append(results, [line |-> loc[w].line, result |-> Result(loc[w])])
            /\ Return(w)
    /\ UNCHANGED <<concurrency, urlList, urlChan, urlClosed, distributed, wg, waiter,
                   resultsClosed, collector, output, buckets, taken, calls, reqs, found,
                   failed>>

(***************************************************************************)
(* The goroutine of wg.Wait and close(results).                            *)
(***************************************************************************)
\* A slip: the results channel is closed without waiting for the workers.
WaitReturns_NoWait ==
    /\ waiter = "wait"
    /\ waiter' = "close"
    /\ UNCHANGED <<concurrency, urlList, urlChan, urlClosed, distributed, wg, results,
                   resultsClosed, pc, loc, collector, output, buckets, taken, calls, reqs,
                   found, failed>>

\* A slip: wg.Wait returns only once some worker has called wg.Done.
WaitReturns_AfterSomeDone ==
    /\ waiter = "wait"
    /\ wg = 0
    /\ \E w \in Workers : pc[w] = "done"
    /\ waiter' = "close"
    /\ UNCHANGED <<concurrency, urlList, urlChan, urlClosed, distributed, wg, results,
                   resultsClosed, pc, loc, collector, output, buckets, taken, calls, reqs,
                   found, failed>>

\* wg.Wait returns when the counter is zero.
WaitReturns ==
    /\ waiter = "wait"
    /\ wg = 0
    /\ waiter' = "close"
    /\ UNCHANGED <<concurrency, urlList, urlChan, urlClosed, distributed, wg, results,
                   resultsClosed, pc, loc, collector, output, buckets, taken, calls, reqs,
                   found, failed>>

CloseResults ==
    /\ waiter = "close"
    /\ resultsClosed' = TRUE
    /\ waiter' = "done"
    /\ UNCHANGED <<concurrency, urlList, urlChan, urlClosed, distributed, wg, results, pc,
                   loc, collector, output, buckets, taken, calls, reqs, found, failed>>

(***************************************************************************)
(* main's loop over the results channel.                                   *)
(***************************************************************************)
\* A slip: the third case looks for "domain" alone.
Categorize_LooseCase(b, result) ==
    IF Contains(result.Vulnerability, <<"Null", "origin">>)
    THEN [b EXCEPT !.nullOrigin = Append(@, result)]
    ELSE IF Contains(result.Vulnerability, <<"Wildcard", "origin">>)
    THEN [b EXCEPT !.wildcardOrigin = Append(@, result)]
    ELSE IF Contains(result.Vulnerability, <<"domain">>)
    THEN [b EXCEPT !.domainOrigin = Append(@, result)]
    ELSE IF Contains(result.Vulnerability, <<"different", "domain">>)
    THEN [b EXCEPT !.differentDomain = Append(@, result)]
    ELSE b

\* The switch on the vulnerability message: the first case that matches.
Categorize(b, result) ==
    IF Contains(result.Vulnerability, <<"Null", "origin">>)
    THEN [b EXCEPT !.nullOrigin = Append(@, result)]
    ELSE IF Contains(result.Vulnerability, <<"Wildcard", "origin">>)
    THEN [b EXCEPT !.wildcardOrigin = Append(@, result)]
    ELSE IF Contains(result.Vulnerability, <<"same", "domain">>)
    THEN [b EXCEPT !.domainOrigin = Append(@, result)]
    ELSE IF Contains(result.Vulnerability, <<"different", "domain">>)
    THEN [b EXCEPT !.differentDomain = Append(@, result)]
    ELSE b

Collect ==
    /\ collector = "range"
    /\ results # <<>>
    /\ results' = Tail(results)
    /\ buckets' = Categorize(buckets, Head(results).result)
    /\ output' = Append(output, Head(results))
    /\ UNCHANGED <<concurrency, urlList, urlChan, urlClosed, distributed, wg, waiter,
                   resultsClosed, pc, loc, collector, taken, calls, reqs, found, failed>>

CollectorDone ==
    /\ collector = "range"
    /\ results = <<>>
    /\ resultsClosed
    /\ collector' = "done"
    /\ UNCHANGED <<concurrency, urlList, urlChan, urlClosed, distributed, wg, waiter,
                   results, resultsClosed, pc, loc, output, buckets, taken, calls, reqs,
                   found, failed>>

Next ==
    \/ Distribute
    \/ CloseUrlChan
    \/ \E w \in Workers : TakeUrl(w)
    \/ \E w \in Workers : SkipBlank(w)
    \/ \E w \in Workers : WorkerExit(w)
    \/ \E w \in Workers : Probe1(w)
    \/ \E w \in Workers : Probe2(w)
    \/ \E w \in Workers : Probe3(w)
    \/ \E w \in Workers : Finish(w)
    \/ WaitReturns
    \/ CloseResults
    \/ Collect
    \/ CollectorDone

\* The pool: several workers, lines of each kind of outcome.
Spec == Init /\ [][Next]_vars

\* The probe engine: one worker, lines of every target.
MaxProbeUrls == 2

InitProbe == Started({1}, UrlLists(Entries, MaxProbeUrls))

SpecProbe == InitProbe /\ [][Next]_vars

(***************************************************************************)
(* What the properties below speak of.                                     *)
(***************************************************************************)
\* The number of items of a channel or slice that come from line i.
Occurrences(items, i) == Cardinality({j \in 1..Len(items) : items[j].line = i})

\* The workers inside checkCORS.
InCheckCORS == {w \in DOMAIN pc : pc[w] \in {"probe1", "probe2", "probe3", "result"}}

\* The workers that hold a vulnerable result of line i not yet sent.
Holding(i) ==
    {w \in DOMAIN pc : pc[w] \in {"result", "panic"} /\ loc[w].line = i /\ loc[w].vulnerable}

\* The results in the channel, read by main, or in a bucket.
Surfaced ==
    {results[j].result : j \in 1..Len(results)}
        \cup {output[j].result : j \in 1..Len(output)}
        \cup {buckets.nullOrigin[j] : j \in 1..Len(buckets.nullOrigin)}
        \cup {buckets.wildcardOrigin[j] : j \in 1..Len(buckets.wildcardOrigin)}
        \cup {buckets.domainOrigin[j] : j \in 1..Len(buckets.domainOrigin)}
        \cup {buckets.differentDomain[j] : j \in 1..Len(buckets.differentDomain)}

\* The results of line i in the channel or read by main.
ResultsOf(i) ==
    {results[j].result : j \in {k \in 1..Len(results) : results[k].line = i}}
        \cup {output[j].result : j \in {k \in 1..Len(output) : output[k].line = i}}

IsPrefix(s, t) == Len(s) <= Len(t) /\ SubSeq(t, 1, Len(s)) = s

InBucket(bucket, r) == \E j \in 1..Len(bucket) : bucket[j] = r

\* The allow-origin value the server of url returns for an Origin.
AllowOriginFor(url, origin) == Response(url, origin).Header.ACAO

\* The three Origin headers checkCORS may send for url.
ProbeOrigins(url) == <<OriginNull, OriginExample, SchemeHost(url)>>

\* A URL that http.NewRequest accepts and whose server answers every request.
Answers(url) == url # Blank /\ ~NewRequestFails(url) /\ ~MayFail(url)

\* The probe of url at which a server that answers returns an allow-origin
\* value that checkCORS takes for a vulnerability (0 if at none).
DecidingProbe(url) ==
    LET hits == {k \in 1..3 :
                    ProbeVerdict(url, k, AllowOriginFor(url, ProbeOrigin(url, k))) # NoMsg}
    IN  IF hits = {} THEN 0 ELSE CHOOSE k \in hits : \A j \in hits : k <= j

\* The result of a probe of url alone, all of whose requests are answered: a
\* set with the one result, or the empty set.
AloneResult(url) ==
    LET k    == DecidingProbe(url)
        resp == Response(url, ProbeOrigin(url, k))
    IN  IF k = 0 THEN {}
        ELSE {[URL |-> url, StatusCode |-> resp.StatusCode, CORSConfig |-> ReadConfig(resp),
               Vulnerable |-> TRUE,
               Vulnerability |-> ProbeVerdict(url, k, resp.Header.ACAO)]}

(***************************************************************************)
(* The pool (Spec).                                                        *)
(***************************************************************************)
\* C1: every vulnerable result a probe produced reaches main's loop exactly
\* once.  At most one verdict is produced per line; each is, at any time, held
\* by its worker, in the channel or read by main, never in two places and
\* never nowhere; when main's loop has ended it has read, for every line,
\* exactly the verdicts produced for it, each carrying the URL of its line;
\* and with a worker running, every line of the wildcard server is among them.
C1_EachResultExactlyOnce ==
    /\ \A i \in Lines :
          /\ found[i] <= 1
          /\ Cardinality(Holding(i)) + Occurrences(results, i) + Occurrences(output, i)
                = found[i]
    /\ \A j \in 1..Len(output) : output[j].result.URL = urlList[output[j].line]
    /\ collector = "done" =>
          /\ \A i \in Lines : Occurrences(output, i) = found[i]
          /\ concurrency >= 1 =>
                \A i \in Lines : urlList[i] = UrlWild => Occurrences(output, i) = 1

\* Two workers, twice the same vulnerable URL, both results read.
C1_Witness ==
    /\ collector = "done"
    /\ concurrency = 2
    /\ Len(urlList) = 2
    /\ urlList[1] = urlList[2]
    /\ Len(output) = 2
    /\ output[1].line = 2

\* C2: the results channel is closed, and wg.Wait has returned, only when
\* every worker has exited; a worker has exited only when the URL channel is
\* closed and empty; and no worker has sent on the closed results channel.
C2_CloseAfterWorkers ==
    /\ (resultsClosed \/ waiter # "wait") => \A w \in DOMAIN pc : pc[w] = "done"
    /\ \A w \in DOMAIN pc : pc[w] = "done" => urlClosed /\ urlChan = <<>>
    /\ \A w \in DOMAIN pc : pc[w] # "panic"

\* The channel is closed after two workers have probed and delivered.
C2_Witness ==
    /\ resultsClosed
    /\ concurrency = 2
    /\ \A i \in Lines : calls[i] = 1 /\ found[i] = 1

\* C3, as stated: no line is received twice, checkCORS is called at most once
\* for a line and never for a blank one, and when the pool has completed (the
\* results channel is closed) every line has been received and checkCORS has
\* been called for every line that is not blank, whatever the worker count.
C3_EveryUrlProbedOnce_AnyCount ==
    /\ \A i \in Lines : taken[i] <= 1 /\ calls[i] <= 1 /\ (urlList[i] = Blank => calls[i] = 0)
    /\ resultsClosed =>
          \A i \in Lines : taken[i] = 1 /\ (urlList[i] # Blank => calls[i] = 1)

\* C3, amended: the same for a worker count of at least 1.
C3_EveryUrlProbedOnce ==
    /\ \A i \in Lines : taken[i] <= 1 /\ calls[i] <= 1 /\ (urlList[i] = Blank => calls[i] = 0)
    /\ (resultsClosed /\ concurrency >= 1) =>
          \A i \in Lines : taken[i] = 1 /\ (urlList[i] # Blank => calls[i] = 1)

\* The pool has completed with two workers and two URLs probed.
C3_Witness ==
    /\ resultsClosed
    /\ concurrency = 2
    /\ Len(urlList) = 2
    /\ \A i \in Lines : calls[i] = 1

\* C4, as stated: the number of calls of checkCORS in progress is at most the
\* worker count given with -c.
C4_AtMostN_AnyCount == Cardinality(InCheckCORS) <= concurrency

\* C4, amended: it is at most the worker count, and zero when that count is
\* negative.
C4_AtMostN ==
    Cardinality(InCheckCORS) <= (IF concurrency > 0 THEN concurrency ELSE 0)

\* As many calls in progress as there are workers.
C4_Witness ==
    /\ concurrency = 2
    /\ Cardinality(InCheckCORS) = 2

\* C5: every result in the channel, read by main or placed in a bucket is
\* vulnerable and has a description.
C5_OnlyVulnerableSurfaced ==
    \A r \in Surfaced : r.Vulnerable /\ r.Vulnerability # NoMsg

\* A URL that was probed three times without a verdict has left nothing behind
\* while another URL's result is in a bucket.
C5_Witness ==
    /\ collector = "done"
    /\ \E i \in Lines : Len(reqs[i]) = 3 /\ found[i] = 0 /\ failed[i] = 0
    /\ Surfaced # {}

\* C6: a probe that has returned on an error (of http.NewRequest or of
\* client.Do, at the first, second or third request) has produced no result
\* and made no request after the failing one; no worker has stopped because
\* of it (a worker is done only when the URL channel is closed and empty, and
\* none has panicked); and when main's loop has ended, every other URL has
\* exactly the result that a probe of it alone gives.
C6_FailureIsolated ==
    /\ \A i \in Lines : failed[i] > 0 =>
          /\ found[i] = 0
          /\ ResultsOf(i) = {}
          /\ Len(reqs[i]) <= failed[i]
          /\ \A w \in DOMAIN pc : loc[w].line # i
    /\ \A w \in DOMAIN pc : pc[w] # "panic" /\ (pc[w] = "done" => urlClosed /\ urlChan = <<>>)
    /\ (collector = "done" /\ concurrency >= 1) =>
          \A i \in Lines : (failed[i] = 0 /\ urlList[i] # Blank) =>
              /\ calls[i] = 1
              /\ Occurrences(output, i) = Cardinality(AloneResult(urlList[i]))
              /\ ResultsOf(i) = AloneResult(urlList[i])

\* One worker: the first URL failed at its second request, and the worker
\* went on to the second URL, whose result main has read.
C6_Witness ==
    /\ collector = "done"
    /\ concurrency = 1
    /\ Len(urlList) = 2
    /\ failed[1] = 2
    /\ Len(reqs[1]) = 2
    /\ found[2] = 1
    /\ Occurrences(output, 2) = 1

(***************************************************************************)
(* The probe engine (SpecProbe).                                           *)
(***************************************************************************)
\* The server of url answers "*" to each of the three Origin headers.
AnswersStar(url) ==
    /\ Answers(url)
    /\ \A k \in 1..3 : AllowOriginFor(url, ProbeOrigin(url, k)) = Star

\* C7: for a URL whose server answers "*" whatever the Origin, checkCORS makes
\* one request, with Origin: null; its result is vulnerable, carries the
\* wildcard message and the status code and configuration of that first
\* response, and main puts it in the wildcard bucket and in no other; when
\* main's loop has ended it has read exactly one result for the line.
C7_Wildcard ==
    \A i \in Lines : AnswersStar(urlList[i]) =>
        /\ IsPrefix(reqs[i], <<OriginNull>>)
        /\ \A r \in ResultsOf(i) :
              /\ r.Vulnerable
              /\ r.Vulnerability = MsgWildcard
              /\ r.StatusCode = Response(urlList[i], OriginNull).StatusCode
              /\ r.CORSConfig = ReadConfig(Response(urlList[i], OriginNull))
        /\ \A j \in 1..Len(output) : output[j].line = i =>
              /\ InBucket(buckets.wildcardOrigin, output[j].result)
              /\ ~InBucket(buckets.nullOrigin, output[j].result)
              /\ ~InBucket(buckets.domainOrigin, output[j].result)
              /\ ~InBucket(buckets.differentDomain, output[j].result)
        /\ collector = "done" => Occurrences(output, i) = 1 /\ reqs[i] = <<OriginNull>>

C7_Witness ==
    /\ collector = "done"
    /\ \E i \in Lines : AnswersStar(urlList[i]) /\ Occurrences(output, i) = 1
    /\ Len(buckets.wildcardOrigin) >= 1

\* The server of url answers "null" to Origin: null.
AnswersNullToNull(url) ==
    /\ Answers(url)
    /\ AllowOriginFor(url, OriginNull) = OriginNull

\* C8: for a URL whose server answers "null" to Origin: null, the result of
\* checkCORS is vulnerable and carries the null-origin message, main puts it
\* in the null-origin bucket and in no other, and when main's loop has ended
\* it has read exactly one result for the line.
C8_NullOrigin ==
    \A i \in Lines : AnswersNullToNull(urlList[i]) =>
        /\ \A r \in ResultsOf(i) : r.Vulnerable /\ r.Vulnerability = MsgNull
        /\ \A j \in 1..Len(output) : output[j].line = i =>
              /\ InBucket(buckets.nullOrigin, output[j].result)
              /\ ~InBucket(buckets.wildcardOrigin, output[j].result)
              /\ ~InBucket(buckets.domainOrigin, output[j].result)
              /\ ~InBucket(buckets.differentDomain, output[j].result)
        /\ collector = "done" => Occurrences(output, i) = 1

C8_Witness ==
    /\ collector = "done"
    /\ \E i \in Lines : AnswersNullToNull(urlList[i]) /\ Occurrences(output, i) = 1
    /\ Len(buckets.nullOrigin) >= 1

\* The server of url names http://example.com when sent that Origin and names
\* no origin when sent Origin: null.
AllowsExampleOnly(url) ==
    /\ Answers(url)
    /\ AllowOriginFor(url, OriginNull) = <<>>
    /\ AllowOriginFor(url, OriginExample) = OriginExample

\* C9: for such a URL the requests made are, in this order, the one with
\* Origin: null and the one with Origin: http://example.com, and never a
\* third; the result is vulnerable and carries the different-domain message,
\* main puts it in the different-domain bucket and in no other, and when
\* main's loop has ended exactly two requests were made and one result read.
C9_DifferentDomain ==
    \A i \in Lines : AllowsExampleOnly(urlList[i]) =>
        /\ IsPrefix(reqs[i], <<OriginNull, OriginExample>>)
        /\ found[i] = 1 => reqs[i] = <<OriginNull, OriginExample>>
        /\ \A r \in ResultsOf(i) : r.Vulnerable /\ r.Vulnerability = MsgDifferent
        /\ \A j \in 1..Len(output) : output[j].line = i =>
              /\ InBucket(buckets.differentDomain, output[j].result)
              /\ ~InBucket(buckets.nullOrigin, output[j].result)
              /\ ~InBucket(buckets.wildcardOrigin, output[j].result)
              /\ ~InBucket(buckets.domainOrigin, output[j].result)
        /\ collector = "done" =>
              /\ Occurrences(output, i) = 1
              /\ reqs[i] = <<OriginNull, OriginExample>>

C9_Witness ==
    /\ collector = "done"
    /\ \E i \in Lines :
          /\ AllowsExampleOnly(urlList[i])
          /\ Occurrences(output, i) = 1
          /\ Len(reqs[i]) = 2
    /\ Len(buckets.differentDomain) >= 1

\* The server of url sets no CORS header, whatever the Origin.
SetsNoCorsHeaders(url) ==
    /\ Answers(url)
    /\ \A k \in 1..3 : Response(url, ProbeOrigin(url, k)).Header = NoHeaders

\* C10: for a URL whose server sets no CORS header no verdict is reached and
\* no result is ever in the channel or read by main; the requests made are, in
\* this order, those with Origin: null, http://example.com and scheme://host;
\* and when main's loop has ended all three were made.
C10_NoCorsHeaders ==
    \A i \in Lines : SetsNoCorsHeaders(urlList[i]) =>
        /\ found[i] = 0
        /\ ResultsOf(i) = {}
        /\ \A w \in DOMAIN pc : (pc[w] = "result" /\ loc[w].line = i) => ~loc[w].vulnerable
        /\ IsPrefix(reqs[i], ProbeOrigins(urlList[i]))
        /\ collector = "done" => reqs[i] = ProbeOrigins(urlList[i])

\* Main's loop has ended with nothing read for a URL, ending in a dot, that
\* was requested three times.
C10_Witness ==
    /\ collector = "done"
    /\ \E i \in Lines :
          /\ SetsNoCorsHeaders(urlList[i])
          /\ PublicSuffix(urlList[i]) = <<>>
          /\ Len(reqs[i]) = 3
          /\ Occurrences(output, i) = 0

\* The server of url answers every request, and its allow-origin value for
\* Origin: null is neither "*" nor "null".
AnswersOtherToNull(url) ==
    /\ Answers(url)
    /\ AllowOriginFor(url, OriginNull) \notin {Star, OriginNull}

\* The effective top-level domain of the host of url.
HostSuffix(url) == PublicSuffix(Parse(url).Host)

\* The workers whose call of checkCORS for line i has had its first response
\* tested and has made no second request.
PastFirstProbe(i) ==
    {w \in DOMAIN pc :
        /\ pc[w] \in {"probe2", "result"}
        /\ loc[w].line = i
        /\ reqs[i] = <<OriginNull>>}

\* C11, as claimed: when the allow-origin value returned for Origin: null is
\* neither "*" nor "null", the first probe's verdict is vulnerable exactly when
\* that value ends with the (non-empty) effective top-level domain of the
\* host of the target URL, and the verdict then carries the same-domain
\* message.  The program does not do this for a URL with a path: it computes
\* the suffix of the whole URL string.
C11_SuffixOfHost ==
    \A i \in Lines : AnswersOtherToNull(urlList[i]) =>
        \A w \in PastFirstProbe(i) :
            /\ loc[w].vulnerable <=>
                  /\ HostSuffix(urlList[i]) # <<>>
                  /\ HasSuffix(AllowOriginFor(urlList[i], OriginNull), HostSuffix(urlList[i]))
            /\ loc[w].vulnerable => loc[w].vulnerability = MsgSame

\* A URL with a path whose server names, for Origin: null, an origin that
\* ends with the suffix of the URL's host was found not vulnerable by the
\* first probe, and main's loop has ended with nothing read for it.
C11_Witness ==
    /\ collector = "done"
    /\ \E i \in Lines :
          /\ AnswersOtherToNull(urlList[i])
          /\ HostSuffix(urlList[i]) # <<>>
          /\ HasSuffix(AllowOriginFor(urlList[i], OriginNull), HostSuffix(urlList[i]))
          /\ PublicSuffix(urlList[i]) # HostSuffix(urlList[i])
          /\ Len(reqs[i]) = 3
          /\ Occurrences(output, i) = 0

\* The server of url answers every request and its answers to Origin: null
\* and Origin: http://example.com are taken for no vulnerability.
FirstTwoFindNothing(url) ==
    /\ Answers(url)
    /\ Verdict1(url, AllowOriginFor(url, OriginNull)) = NoMsg
    /\ Verdict2(url, AllowOriginFor(url, OriginExample)) = NoMsg

\* The server of url answers every request and its answer to Origin: null
\* ends with the suffix computed at the first probe.
SuffixMatchAtFirst(url) ==
    /\ Answers(url)
    /\ Verdict1(url, AllowOriginFor(url, OriginNull)) = MsgSame

\* C12: for a URL on which the first two probes find nothing, the requests
\* made are, in order, those with Origin: null, http://example.com and the
\* URL's scheme://host; if the allow-origin value returned to the third equals
\* scheme://host the result is vulnerable with the message of the first
\* probe's suffix match, otherwise no verdict is reached; and main puts the
\* results of both variants in the domain-origin bucket and in no other.
C12_ExactMatchSameLabel ==
    /\ \A i \in Lines : FirstTwoFindNothing(urlList[i]) =>
          /\ IsPrefix(reqs[i], <<OriginNull, OriginExample, SchemeHost(urlList[i])>>)
          /\ IF AllowOriginFor(urlList[i], SchemeHost(urlList[i])) = SchemeHost(urlList[i])
             THEN /\ found[i] = 1 => Len(reqs[i]) = 3
                  /\ \A r \in ResultsOf(i) : r.Vulnerable /\ r.Vulnerability = MsgSame
                  /\ collector = "done" => Occurrences(output, i) = 1
             ELSE found[i] = 0 /\ ResultsOf(i) = {}
    /\ \A i \in Lines : SuffixMatchAtFirst(urlList[i]) =>
          \A r \in ResultsOf(i) : r.Vulnerability = MsgSame
    /\ \A j \in 1..Len(output) :
          (\/ FirstTwoFindNothing(urlList[output[j].line])
           \/ SuffixMatchAtFirst(urlList[output[j].line])) =>
              /\ InBucket(buckets.domainOrigin, output[j].result)
              /\ ~InBucket(buckets.nullOrigin, output[j].result)
              /\ ~InBucket(buckets.wildcardOrigin, output[j].result)
              /\ ~InBucket(buckets.differentDomain, output[j].result)

\* Main's loop has ended with two results in the domain-origin bucket: one
\* of a third probe's exact match and one of a first probe's suffix match.
C12_Witness ==
    /\ collector = "done"
    /\ Len(buckets.domainOrigin) = 2
    /\ \E i, j \in Lines :
          /\ FirstTwoFindNothing(urlList[i])
          /\ reqs[i] = <<OriginNull, OriginExample, SchemeHost(urlList[i])>>
          /\ Occurrences(output, i) = 1
          /\ SuffixMatchAtFirst(urlList[j])
          /\ reqs[j] = <<OriginNull>>
          /\ Occurrences(output, j) = 1

(***************************************************************************)
(* Files with blank lines (SpecBlank).                                     *)
(***************************************************************************)
MaxBlankUrls == 3

\* The lines of a file with a blank line: a target with a verdict, one with
\* none whose connection may fail, and the blank.
BlankEntries == {UrlWild, UrlFlaky, Blank}

BlankLists ==
    {l \in UrlLists(BlankEntries, MaxBlankUrls) : \E i \in 1..Len(l) : l[i] = Blank}

InitBlank == Started(1..MaxWorkers, BlankLists)

SpecBlank == InitBlank /\ [][Next]_vars

\* C13: for a blank line checkCORS is never called, no request is made, no
\* verdict or error is recorded, no worker holds it as the URL of a call and
\* no result of it is in the results channel or read by main; and the worker
\* that took it goes on receiving: when main's loop has ended every blank
\* line was taken once, and every line after it was taken once and, if not
\* blank, probed once.
C13_BlankSkipped ==
    \A i \in Lines : urlList[i] = Blank =>
        /\ taken[i] <= 1
        /\ calls[i] = 0
        /\ reqs[i] = <<>>
        /\ found[i] = 0
        /\ failed[i] = 0
        /\ \A w \in DOMAIN pc : loc[w].line # i
        /\ Occurrences(results, i) = 0
        /\ Occurrences(output, i) = 0
        /\ collector = "done" =>
              /\ taken[i] = 1
              /\ \A j \in Lines : j > i =>
                    /\ taken[j] = 1
                    /\ urlList[j] # Blank => calls[j] = 1

\* With one worker, main's loop has ended after the worker took a blank line
\* and then probed the line after it.
C13_Witness ==
    /\ collector = "done"
    /\ concurrency = 1
    /\ \E i \in Lines :
          /\ urlList[i] = Blank
          /\ taken[i] = 1
          /\ calls[i] = 0
          /\ i < Len(urlList)
          /\ calls[i + 1] = 1
          /\ reqs[i + 1] # <<>>

(***************************************************************************)
(* The pool under fair scheduling (SpecFair).  Every goroutine that can    *)
(* take a step eventually takes one: the scheduler runs each runnable      *)
(* goroutine, and every call of client.Do returns, with a response or with *)
(* an error, within the client's timeout.                                  *)
(***************************************************************************)
\* The steps of the distributor goroutine.
Distributor == Distribute \/ CloseUrlChan

\* The steps of a worker goroutine.
Worker(w) ==
    /\ w \in Workers
    /\ \/ TakeUrl(w)
       \/ SkipBlank(w)
       \/ WorkerExit(w)
       \/ Probe1(w)
       \/ Probe2(w)
       \/ Probe3(w)
       \/ Finish(w)

\* The steps of the goroutine of wg.Wait.
Waiter == WaitReturns \/ CloseResults

\* The steps of main's loop over the results.
Collector == Collect \/ CollectorDone

Fairness ==
    /\ WF_vars(Distributor)
    /\ \A w \in 1..MaxWorkers : WF_vars(Worker(w))
    /\ WF_vars(Waiter)
    /\ WF_vars(Collector)

\* At least one worker.
InitFair == Started(1..MaxWorkers, UrlLists(PoolEntries, MaxUrls))

SpecFair == InitFair /\ [][Next]_vars /\ Fairness

\* The pool has completed: the URL channel is closed and empty, every worker
\* has left its loop, the results channel is closed and empty, main's loop
\* has ended, and main has read every result that was produced.
Completed ==
    /\ urlClosed
    /\ urlChan = <<>>
    /\ distributed = Len(urlList)
    /\ \A w \in Workers : pc[w] = "done"
    /\ wg = 0
    /\ resultsClosed
    /\ results = <<>>
    /\ collector = "done"
    /\ \A i \in Lines : Occurrences(output, i) = found[i]

\* C14: with at least one worker, under fair scheduling and with every HTTP
\* call returning, the pool eventually completes, and stays so.  (A reachable
\* state that is not completed and in which no goroutine can take a step
\* would refute this: to stay in it for ever is fair.)
C14_RunsToCompletion == <>[]Completed

\* Two workers have exited and main's loop has ended after reading a result.
C14_Witness ==
    /\ Completed
    /\ concurrency = 2
    /\ Len(urlList) = 2
    /\ Len(output) >= 1
    /\ \A i \in Lines : taken[i] = 1

(***************************************************************************)
(* The pool (Spec), continued.                                             *)
(***************************************************************************)
\* C15: each call of checkCORS reaches at most one verdict and each line has
\* at most one result in the results channel, which never holds more than
\* its capacity; a worker that holds a vulnerable result finds room for it in
\* the results channel (its send does not wait for main); and the
\* distributor, as long as it has a line to send, finds room for it in the
\* URL channel.
C15_SendsNeverBlock ==
    /\ \A i \in Lines : found[i] <= 1 /\ Occurrences(results, i) <= 1
    /\ Len(results) <= ResultsCap
    /\ Len(urlChan) <= UrlChanCap
    /\ \A w \in DOMAIN pc :
          (pc[w] = "result" /\ ShouldSend(Result(loc[w]))) => Len(results) < ResultsCap
    /\ (distributed < Len(urlList) /\ ~urlClosed) => Len(urlChan) < UrlChanCap

\* A worker holds a vulnerable result while the result of the other line is
\* still in the channel, unread; every line has been through the URL channel.
C15_Witness ==
    /\ Len(urlList) = 2
    /\ distributed = 2
    /\ Len(output) = 0
    /\ Len(results) = 1
    /\ \E w \in DOMAIN pc : pc[w] = "result" /\ ShouldSend(Result(loc[w]))

(***************************************************************************)
(* The probe engine (SpecProbe), continued.                                *)
(***************************************************************************)
\* The requests made for each line are, in order, the first of those with
\* Origin: null, http://example.com and scheme://host; a second was made only
\* if the server's answer to the first is taken for no vulnerability, a third
\* only if its answers to the first and second are; and at most one verdict
\* was reached.
InProbeOrder ==
    \A i \in Lines :
        /\ Len(reqs[i]) <= 3
        /\ IsPrefix(reqs[i], ProbeOrigins(urlList[i]))
        /\ found[i] <= 1
        /\ Len(reqs[i]) >= 2 =>
              Verdict1(urlList[i], AllowOriginFor(urlList[i], OriginNull)) = NoMsg
        /\ Len(reqs[i]) >= 3 =>
              Verdict2(urlList[i], AllowOriginFor(urlList[i], OriginExample)) = NoMsg

\* A step makes at most one request, and none for a line for which a verdict
\* was reached.
NoRequestAfterVerdict ==
    \A i \in Lines :
        /\ Len(reqs'[i]) <= Len(reqs[i]) + 1
        /\ IsPrefix(reqs[i], reqs'[i])
        /\ found[i] > 0 => reqs'[i] = reqs[i]

\* C16: in every state the requests made for a URL are in the order null,
\* http://example.com, scheme://host, at most three, the second and third
\* made only after the earlier ones found nothing; and no step makes a
\* request for a URL after a vulnerable verdict on it.
C16_ProbesInOrder == []InProbeOrder /\ [][NoRequestAfterVerdict]_vars

\* Main's loop has ended after a verdict at the third request for one line and
\* a verdict at the first request for another.
C16_Witness ==
    /\ collector = "done"
    /\ \E i, j \in Lines :
          /\ reqs[i] = ProbeOrigins(urlList[i])
          /\ found[i] = 1
          /\ reqs[j] = <<OriginNull>>
          /\ found[j] = 1

\* The response to the last request made for line i.
LastResponse(i) == Response(urlList[i], reqs[i][Len(reqs[i])])

\* C17: every result of a line in the results channel or read by main has
\* the status code of the response to the last request made for the line, and
\* each field of its configuration is read from the headers of that response;
\* that request is the one whose allow-origin value gave the verdict of the
\* result.
C17_ResultOfDecidingProbe ==
    \A i \in Lines : \A r \in ResultsOf(i) :
        /\ reqs[i] # <<>>
        /\ r.URL = urlList[i]
        /\ r.StatusCode = LastResponse(i).StatusCode
        /\ r.CORSConfig.AllowOrigins = <<LastResponse(i).Header.ACAO>>
        /\ r.CORSConfig.AllowMethods = parseHeader(LastResponse(i).Header.ACAM)
        /\ r.CORSConfig.AllowHeaders = parseHeader(LastResponse(i).Header.ACAH)
        /\ r.CORSConfig.ExposeHeaders = parseHeader(LastResponse(i).Header.ACEH)
        /\ r.CORSConfig.MaxAge = Atoi(LastResponse(i).Header.MaxAge)
        /\ r.CORSConfig.AllowCredentials = LastResponse(i).Header.ACAC
        /\ r.Vulnerable
        /\ r.Vulnerability =
              ProbeVerdict(urlList[i], Len(reqs[i]), LastResponse(i).Header.ACAO)

\* Main has read the result of a line decided by its second request, whose
\* first response had another status code, other exposed headers and another
\* max-age than the second.
C17_Witness ==
    \E j \in 1..Len(output) :
        LET i     == output[j].line
            first == Response(urlList[i], OriginNull)
        IN  /\ Len(reqs[i]) = 2
            /\ first.StatusCode # output[j].result.StatusCode
            /\ parseHeader(first.Header.ACEH) # output[j].result.CORSConfig.ExposeHeaders
            /\ Atoi(first.Header.MaxAge) # output[j].result.CORSConfig.MaxAge

\* The four slices main fills, in the order of the cases of its switch.
BucketList ==
    <<buckets.nullOrigin, buckets.wildcardOrigin, buckets.domainOrigin,
      buckets.differentDomain>>

\* The message of the category of each slice, in the same order.
CategoryMsgs == <<MsgNull, MsgWildcard, MsgSame, MsgDifferent>>

\* C18: the sizes of the four slices add up to the number of results main has
\* read; every result read is in exactly one slice, the one of the category
\* of its message; and every slice holds only results that were read and
\* that carry the message of its category.
C18_ExactlyOneBucket ==
    /\ Len(buckets.nullOrigin) + Len(buckets.wildcardOrigin)
          + Len(buckets.domainOrigin) + Len(buckets.differentDomain) = Len(output)
    /\ \A j \in 1..Len(output) :
          /\ Cardinality({k \in 1..4 : InBucket(BucketList[k], output[j].result)}) = 1
          /\ \A k \in 1..4 :
                InBucket(BucketList[k], output[j].result)
                    <=> output[j].result.Vulnerability = CategoryMsgs[k]
    /\ \A k \in 1..4 : \A n \in 1..Len(BucketList[k]) :
          /\ BucketList[k][n].Vulnerability = CategoryMsgs[k]
          /\ \E j \in 1..Len(output) : output[j].result = BucketList[k][n]

\* Main's loop has ended after reading two results that went to two slices,
\* one of them the last of the switch.
C18_Witness ==
    /\ collector = "done"
    /\ Len(output) = 2
    /\ Len(buckets.differentDomain) = 1
    /\ Len(buckets.nullOrigin) + Len(buckets.wildcardOrigin) + Len(buckets.domainOrigin) = 1

\* The server of url answers every request and returns, as the allow-origin
\* value, the Origin it was sent, whichever of the three it is.
ReflectsOrigin(url) ==
    /\ Answers(url)
    /\ \A k \in 1..3 : AllowOriginFor(url, ProbeOrigin(url, k)) = ProbeOrigin(url, k)

\* The messages of the verdicts reached for line i: of the results in the
\* channel or read by main, and of the result a worker has built.
VerdictsOf(i) ==
    {r.Vulnerability : r \in ResultsOf(i)}
        \cup {loc[w].vulnerability :
                 w \in {v \in DOMAIN pc : /\ pc[v] = "result"
                                          /\ loc[v].line = i
                                          /\ loc[v].vulnerable}}

\* C19: for a URL whose server reflects the Origin, only the request with
\* Origin: null is made, every verdict is the null-origin one, main puts the
\* result in the null-origin slice, and when main's loop has ended one request
\* was made and one result read.  And the different-domain verdict is reached
\* only for a line whose server's allow-origin value for Origin: null is not
\* "*", is not "null", and does not pass the suffix test of the first probe
\* (a non-empty computed suffix that the value ends with).
C19_ReflectorIsNullOrigin ==
    /\ \A i \in Lines : ReflectsOrigin(urlList[i]) =>
          /\ IsPrefix(reqs[i], <<OriginNull>>)
          /\ VerdictsOf(i) \subseteq {MsgNull}
          /\ \A j \in 1..Len(output) : output[j].line = i =>
                /\ InBucket(buckets.nullOrigin, output[j].result)
                /\ ~InBucket(buckets.differentDomain, output[j].result)
          /\ collector = "done" =>
                /\ reqs[i] = <<OriginNull>>
                /\ Occurrences(output, i) = 1
    /\ \A i \in Lines : MsgDifferent \in VerdictsOf(i) =>
          /\ AllowOriginFor(urlList[i], OriginNull) # Star
          /\ AllowOriginFor(urlList[i], OriginNull) # OriginNull
          /\ ~(/\ PublicSuffix(urlList[i]) # <<>>
               /\ HasSuffix(AllowOriginFor(urlList[i], OriginNull),
                            PublicSuffix(urlList[i])))
          /\ ~ReflectsOrigin(urlList[i])

\* Main's loop has ended after one request to a server that reflects the
\* Origin, found null-origin, and two to another, found different-domain.
C19_Witness ==
    /\ collector = "done"
    /\ \E i, j \in Lines :
          /\ ReflectsOrigin(urlList[i])
          /\ reqs[i] = <<OriginNull>>
          /\ \E n \in 1..Len(output) :
                output[n].line = i /\ InBucket(buckets.nullOrigin, output[n].result)
          /\ MsgDifferent \in VerdictsOf(j)
          /\ Len(reqs[j]) = 2

(***************************************************************************)
(* The pool under fair scheduling, with any value of the -c flag           *)
(* (SpecFairAny).                                                          *)
(***************************************************************************)
SpecFairAny == Init /\ [][Next]_vars /\ Fairness

\* Nothing was probed and nothing produced.
NothingProbed ==
    /\ Workers = {}
    /\ DOMAIN pc = {}
    /\ wg = 0
    /\ \A i \in Lines : taken[i] = 0 /\ calls[i] = 0 /\ reqs[i] = <<>> /\ found[i] = 0
    /\ results = <<>>
    /\ output = <<>>
    /\ buckets = EmptyBuckets
    /\ urlChan = [i \in 1..distributed |-> [line |-> i, url |-> urlList[i]]]

\* The run has ended with every line still in the URL channel.
EndedUnprobed ==
    /\ NothingProbed
    /\ distributed = Len(urlList)
    /\ urlClosed
    /\ waiter = "done"
    /\ resultsClosed
    /\ collector = "done"

\* C20: with a worker count of zero or less there is no worker; at no time is
\* a line taken from the URL channel, checkCORS called, a request made or a
\* result produced or read; and under fair scheduling the run ends: every
\* line is in the URL channel, which is closed, wg.Wait has returned, the
\* results channel is closed and main's loop has ended with nothing read.
C20_NoWorkers ==
    /\ [](concurrency <= 0 => NothingProbed)
    /\ <>[](concurrency <= 0 => EndedUnprobed)

\* The run has ended with two URLs, neither blank, in the URL channel.
C20_Witness ==
    /\ concurrency <= 0
    /\ EndedUnprobed
    /\ Len(urlChan) = 2
    /\ \A i \in Lines : urlList[i] # Blank

=============================================================================
